---- MODULE Spec2Model ----
(***************************************************************************)
(* Model of libweston/backend-vnc/aml-wl-backend.c: the backend that lets  *)
(* an aml loop (the inner loop) be driven by a wl_event_loop (the host     *)
(* loop).                                                                  *)
(*                                                                         *)
(* The C heap is modelled by two tables: heap (struct event_source_data)   *)
(* and sources (struct wl_event_source, owned by the host loop).  An       *)
(* allocation takes the lowest free index, so a freed block is reused by   *)
(* the next allocation.  Pointers are indexes, NULL is 0.                  *)
(***************************************************************************)
EXTENDS Integers, Sequences, FiniteSets, TLC

(* ---------------- bounds ---------------- *)
NumObj == 2
NumAml == 2
NumLoops == 2
MaxData == 2
MaxMask == 31

(* ---------------- program constants ---------------- *)
NULL == 0
POLLIN == 1
POLLPRI == 2
POLLOUT == 4
WL_EVENT_READABLE == 1
WL_EVENT_WRITABLE == 2
WL_EVENT_HANGUP == 4
WL_EVENT_ERROR == 8

\* the objects of the inner loop: odd ones are aml_handlers (descriptors),
\* even ones are aml_signals
Objs == 1..NumObj
Handlers == {o \in Objs : o % 2 = 1}
Signals == {o \in Objs : o % 2 = 0}
Amls == 1..NumAml
Loops == 1..NumLoops
DataPtrs == 1..MaxData
SrcPtrs == 1..MaxData

\* interest masks an aml_handler is given (poll bits; POLLPRI is not translated)
EventMasks == {POLLIN, POLLOUT + POLLPRI}
\* readiness bits the host loop passes to the fd callback
HostMasks == {WL_EVENT_READABLE, WL_EVENT_WRITABLE + WL_EVENT_HANGUP + WL_EVENT_ERROR}

\* (in & bit) != 0, for bit a power of two
HasBit(in, bit) == (in \div bit) % 2 = 1

(* ---------------- mask translation ---------------- *)
from_poll_identity(in) == in % 4
to_poll_passthrough(in) == in
wl_backend_events_from_poll_events(in) ==
    (IF HasBit(in, POLLIN) THEN WL_EVENT_READABLE ELSE 0)
  + (IF HasBit(in, POLLOUT) THEN WL_EVENT_WRITABLE ELSE 0)

wl_backend_events_to_poll_events(in) ==
    (IF HasBit(in, WL_EVENT_READABLE) THEN POLLIN ELSE 0)
  + (IF HasBit(in, WL_EVENT_WRITABLE) THEN POLLOUT ELSE 0)

(* ---------------- state ---------------- *)
VARIABLES
    wl_loop,       \* the file-scope wl_loop
    init_pc,       \* per aml: position of its aml_wl_loop_init call
    init_arg,      \* per aml: the loop argument of that call
    state,         \* per aml: its struct wl_backend_state
    event_mask,    \* per aml_handler: aml_get_event_mask
    backend_data,  \* per object: aml_get_backend_data
    heap,          \* struct event_source_data blocks
    sources,       \* the host loops' wl_event_source objects
    relay,         \* the relay callback being executed, if any
    trace,         \* aml_emit/aml_dispatch calls of the current relay call
    uaf,           \* kinds of freed block a relay has read
    crashed,       \* the process died on a read of freed memory
    last,          \* the last backend call and its return value
    tr             \* mask translation round trip (SpecMask only)

vars == <<wl_loop, init_pc, init_arg, state, event_mask, backend_data, heap,
          sources, relay, trace, uaf, crashed, last, tr>>

FreeData == [live |-> FALSE, aml_obj |-> NULL, state |-> NULL, src |-> NULL]
FreeSrc == [active |-> FALSE, loop |-> NULL, kind |-> "none", fd |-> NULL, mask |-> 0,
            data |-> NULL]
NoState == [live |-> FALSE, loop |-> NULL]
RelayIdle == [pc |-> "idle", kind |-> "none", data |-> NULL, mask |-> 0, obj |-> NULL,
              gone |-> FALSE]
NoCall == [op |-> "none", obj |-> NULL, ret |-> 0, fault |-> "none", arg |-> 0,
           gone |-> FALSE]
TrIdle == [pc |-> "idle", dir |-> "none", x |-> 0, y |-> 0, z |-> 0]

\* before any aml_wl_loop_init call
InitBoot ==
    /\ wl_loop = NULL
    /\ init_pc = [a \in Amls |-> "none"]
    /\ init_arg = [a \in Amls |-> NULL]
    /\ state = [a \in Amls |-> NoState]
    /\ event_mask = [w \in Handlers |-> 0]
    /\ backend_data = [o \in Objs |-> NULL]
    /\ heap = [d \in DataPtrs |-> FreeData]
    /\ sources = [s \in SrcPtrs |-> FreeSrc]
    /\ relay = RelayIdle
    /\ trace = <<>>
    /\ uaf = {}
    /\ crashed = FALSE
    /\ last = NoCall
    /\ tr = TrIdle

\* after aml_wl_loop_init(1) has returned the first aml
Init ==
    /\ wl_loop = 1
    /\ init_pc = [a \in Amls |-> IF a = 1 THEN "ready" ELSE "none"]
    /\ init_arg = [a \in Amls |-> IF a = 1 THEN 1 ELSE NULL]
    /\ state = [a \in Amls |-> IF a = 1 THEN [live |-> TRUE, loop |-> 1] ELSE NoState]
    /\ event_mask = [w \in Handlers |-> 0]
    /\ backend_data = [o \in Objs |-> NULL]
    /\ heap = [d \in DataPtrs |-> FreeData]
    /\ sources = [s \in SrcPtrs |-> FreeSrc]
    /\ relay = RelayIdle
    /\ trace = <<>>
    /\ uaf = {}
    /\ crashed = FALSE
    /\ last = NoCall
    /\ tr = TrIdle

(* ---------------- helpers ---------------- *)
\* calloc: the lowest free block, NULL when there is none
calloc_data(h) ==
    IF \A d \in DataPtrs : h[d].live THEN NULL
    ELSE CHOOSE d \in DataPtrs : ~h[d].live /\ \A e \in DataPtrs : e < d => h[e].live

new_source(srcs) ==
    IF \A s \in SrcPtrs : srcs[s].active THEN NULL
    ELSE CHOOSE s \in SrcPtrs : ~srcs[s].active /\ \A t \in SrcPtrs : t < s => srcs[t].active

event_source_data_new(h, d, obj, st) ==
    [h EXCEPT ![d] = [live |-> TRUE, aml_obj |-> obj, state |-> st, src |-> NULL]]

free_data_leak(h, d) == h
free_data(h, d) == [h EXCEPT ![d] = FreeData]

\* every handler watches its own descriptor, every aml_signal its own signal
aml_get_fd(w) == w
aml_get_signo(sig) == sig

\* the object has a live event_source_data (it is started on some aml)
HasEntry(o) == \E d \in DataPtrs : heap[d].live /\ heap[d].aml_obj = o

\* a call made by the aml thread: outside any relay, or from a callback
\* that aml_dispatch runs
CanCall == ~crashed /\ relay.pc \in {"idle", "callbacks"}

\* history kept for the call that just returned
Returned(op, obj, ret, fault, arg) ==
    /\ last' = [op |-> op, obj |-> obj, ret |-> ret, fault |-> fault, arg |-> arg,
                gone |-> FALSE]
    /\ trace' = IF relay.pc = "idle" THEN <<>> ELSE trace

(* ---------------- adapter initialisation and teardown ---------------- *)
\* aml_wl_loop_init, line 219: the loop argument is stored in the global
aml_wl_loop_init_store(a, loop) ==
    /\ ~crashed
    /\ init_pc[a] = "none"
    /\ wl_loop' = loop
    /\ init_pc' = [init_pc EXCEPT ![a] = "set"]
    /\ init_arg' = [init_arg EXCEPT ![a] = loop]
    /\ last' = [op |-> "init_store", obj |-> NULL, ret |-> 0, fault |-> "none",
                arg |-> a, gone |-> FALSE]
    /\ UNCHANGED <<state, event_mask, backend_data, heap, sources, relay,
                   trace, uaf, crashed, tr>>

\* wl_backend_new_state: the state reads the global, whatever it holds now
new_state_unchecked(allocOk) == [live |-> TRUE, loop |-> wl_loop]
wl_backend_new_state(allocOk) ==
    IF allocOk THEN [live |-> TRUE, loop |-> wl_loop] ELSE NoState

\* aml_wl_loop_init, line 221: aml_new calls new_state of the backend
aml_wl_loop_init_new(a, allocOk) ==
    /\ ~crashed
    /\ init_pc[a] = "set"
    /\ state' = [state EXCEPT ![a] = wl_backend_new_state(allocOk)]
    /\ init_pc' = [init_pc EXCEPT ![a] = IF allocOk THEN "ready" ELSE "failed"]
    /\ last' = [op |-> "new_state", obj |-> NULL, ret |-> IF allocOk THEN 0 ELSE -1,
                fault |-> IF allocOk THEN "none" ELSE "alloc", arg |-> a,
                gone |-> FALSE]
    /\ UNCHANGED <<wl_loop, init_arg, event_mask, backend_data, heap, sources,
                   relay, trace, uaf, crashed, tr>>

\* wl_backend_del_state: free(state) and nothing else
wl_backend_del_state(a) ==
    /\ ~crashed
    /\ relay.pc = "idle"
    /\ init_pc[a] = "ready"
    /\ state' = [state EXCEPT ![a] = NoState]
    /\ init_pc' = [init_pc EXCEPT ![a] = "deleted"]
    /\ Returned("del_state", NULL, 0, "none", a)
    /\ UNCHANGED <<wl_loop, init_arg, event_mask, backend_data, heap, sources,
                   relay, uaf, crashed, tr>>

(* ---------------- file descriptors ---------------- *)
\* the failure label of wl_backend_add_fd / wl_backend_add_signal
add_failure_leak(h, d) == h
add_failure(h, d) == free_data(h, d)

\* aml_start on a handler whose interest mask is m.
\* fault: "alloc" calloc returns NULL, "host" wl_event_loop_add_fd returns NULL
wl_backend_add_fd(a, w, m, fault) ==
    /\ CanCall
    /\ state[a].live
    /\ ~HasEntry(w)
    /\ event_mask' = [event_mask EXCEPT ![w] = m]
    /\ LET events == wl_backend_events_from_poll_events(m)
           data == calloc_data(heap)
           h1 == event_source_data_new(heap, data, w, a)
           src == new_source(sources)
       IN  IF fault = "alloc" \/ data = NULL
           THEN /\ Returned("add_fd", w, -1, "alloc", a)
                /\ UNCHANGED <<heap, sources, backend_data>>
           ELSE IF fault = "host" \/ src = NULL
           THEN /\ heap' = add_failure(h1, data)
                /\ Returned("add_fd", w, -1, "host", a)
                /\ UNCHANGED <<sources, backend_data>>
           ELSE /\ sources' = [sources EXCEPT ![src] =
                        [active |-> TRUE, loop |-> state[a].loop, kind |-> "fd",
                         fd |-> aml_get_fd(w), mask |-> events, data |-> data]]
                /\ heap' = [h1 EXCEPT ![data].src = src]
                /\ backend_data' = [backend_data EXCEPT ![w] = data]
                /\ Returned("add_fd", w, 0, "none", a)
    /\ UNCHANGED <<wl_loop, init_pc, init_arg, state, relay, uaf, crashed, tr>>

\* the entry the caller's precondition promises: the object's backend data
\* is a live block of an aml that still exists
Started(o) ==
    /\ HasEntry(o)
    /\ backend_data[o] # NULL
    /\ heap[backend_data[o]].live
    /\ state[heap[backend_data[o]].state].live

\* the mask wl_backend_mod_fd hands to wl_event_source_fd_update
mod_fd_mask_raw(aml_event_mask) == aml_event_mask
mod_fd_mask(aml_event_mask) == wl_backend_events_from_poll_events(aml_event_mask)

\* wl_event_source_fd_update: the source keeps its place, only its mask changes
fd_update_readd(srcs, s, mask) ==
    LET n == new_source(srcs)
    IN  IF n = NULL THEN [srcs EXCEPT ![s].mask = mask]
        ELSE [srcs EXCEPT ![n] = [srcs[s] EXCEPT !.mask = mask], ![s] = FreeSrc]
wl_event_source_fd_update(srcs, s, mask) == [srcs EXCEPT ![s].mask = mask]

\* aml_set_event_mask(w, m) on a started handler.
\* fault "host": wl_event_source_fd_update returns -1 and changes nothing
wl_backend_mod_fd(w, m, fault) ==
    /\ CanCall
    /\ Started(w)
    /\ event_mask' = [event_mask EXCEPT ![w] = m]
    /\ LET data == backend_data[w]
           wl_mask == mod_fd_mask(m)
       IN  /\ sources' = IF fault = "host" THEN sources
                         ELSE wl_event_source_fd_update(sources, heap[data].src, wl_mask)
           /\ Returned("mod_fd", w, 0, fault, 0)
    /\ UNCHANGED <<wl_loop, init_pc, init_arg, state, backend_data, heap, relay,
                   uaf, crashed, tr>>

\* a relay call whose userdata block is freed underneath it remembers that
FreedDuring(r, data) ==
    IF r.pc = "callbacks" /\ r.data = data THEN [r EXCEPT !.gone = TRUE] ELSE r

\* wl_event_source_remove
source_remove_skipped(srcs, s) == srcs
wl_event_source_remove(srcs, s) == [srcs EXCEPT ![s] = FreeSrc]

wl_backend_del_fd(w) ==
    /\ CanCall
    /\ Started(w)
    /\ LET data == backend_data[w]
       IN  /\ sources' = wl_event_source_remove(sources, heap[data].src)
           /\ heap' = free_data(heap, data)
           /\ relay' = FreedDuring(relay, data)
    /\ event_mask' = [event_mask EXCEPT ![w] = 0]
    /\ Returned("del_fd", w, 0, "none", 0)
    /\ UNCHANGED <<wl_loop, init_pc, init_arg, state, backend_data,
                   uaf, crashed, tr>>

(* ---------------- signals ---------------- *)
wl_backend_add_signal(a, sig, fault) ==
    /\ CanCall
    /\ state[a].live
    /\ ~HasEntry(sig)
    /\ LET data == calloc_data(heap)
           h1 == event_source_data_new(heap, data, sig, a)
           src == new_source(sources)
       IN  IF fault = "alloc" \/ data = NULL
           THEN /\ Returned("add_signal", sig, -1, "alloc", a)
                /\ UNCHANGED <<heap, sources, backend_data>>
           ELSE IF fault = "host" \/ src = NULL
           THEN /\ heap' = add_failure(h1, data)
                /\ Returned("add_signal", sig, -1, "host", a)
                /\ UNCHANGED <<sources, backend_data>>
           ELSE /\ sources' = [sources EXCEPT ![src] =
                        [active |-> TRUE, loop |-> state[a].loop, kind |-> "signal",
                         fd |-> aml_get_signo(sig), mask |-> 0, data |-> data]]
                /\ heap' = [h1 EXCEPT ![data].src = src]
                /\ backend_data' = [backend_data EXCEPT ![sig] = data]
                /\ Returned("add_signal", sig, 0, "none", a)
    /\ UNCHANGED <<wl_loop, init_pc, init_arg, state, event_mask, relay, uaf,
                   crashed, tr>>

wl_backend_del_signal(sig) ==
    /\ CanCall
    /\ Started(sig)
    /\ LET data == backend_data[sig]
       IN  /\ sources' = wl_event_source_remove(sources, heap[data].src)
           /\ heap' = free_data(heap, data)
           /\ relay' = FreedDuring(relay, data)
    /\ Returned("del_signal", sig, 0, "none", 0)
    /\ UNCHANGED <<wl_loop, init_pc, init_arg, state, event_mask, backend_data,
                   uaf, crashed, tr>>

(* ---------------- the relays ---------------- *)
\* the calls wl_backend_on_fd_event makes into aml, in order
on_fd_event_calls_emit_twice(data, mask) ==
    << [call |-> "aml_emit", aml |-> heap[data].state, obj |-> heap[data].aml_obj,
        revents |-> wl_backend_events_to_poll_events(mask)],
       [call |-> "aml_emit", aml |-> heap[data].state, obj |-> heap[data].aml_obj,
        revents |-> wl_backend_events_to_poll_events(mask)],
       [call |-> "aml_dispatch", aml |-> heap[data].state, obj |-> NULL, revents |-> 0] >>
on_fd_event_calls_twice(data, mask) ==
    << [call |-> "aml_emit", aml |-> heap[data].state, obj |-> heap[data].aml_obj,
        revents |-> wl_backend_events_to_poll_events(mask)],
       [call |-> "aml_dispatch", aml |-> heap[data].state, obj |-> NULL, revents |-> 0],
       [call |-> "aml_dispatch", aml |-> heap[data].state, obj |-> NULL, revents |-> 0] >>
wl_backend_on_fd_event_calls(data, mask) ==
    << [call |-> "aml_emit", aml |-> heap[data].state, obj |-> heap[data].aml_obj,
        revents |-> wl_backend_events_to_poll_events(mask)],
       [call |-> "aml_dispatch", aml |-> heap[data].state, obj |-> NULL, revents |-> 0] >>

\* the calls wl_backend_on_signal makes into aml, in order
on_signal_calls_signo(data) ==
    << [call |-> "aml_emit", aml |-> heap[data].state, obj |-> heap[data].aml_obj,
        revents |-> heap[data].aml_obj],
       [call |-> "aml_dispatch", aml |-> heap[data].state, obj |-> NULL, revents |-> 0] >>
wl_backend_on_signal_calls(data) ==
    << [call |-> "aml_emit", aml |-> heap[data].state, obj |-> heap[data].aml_obj,
        revents |-> 0],
       [call |-> "aml_dispatch", aml |-> heap[data].state, obj |-> NULL, revents |-> 0] >>

\* the userdata blocks a relay reads once aml_dispatch has returned: none,
\* it only returns 0
after_dispatch_reads_data(data) == {data}
wl_backend_after_dispatch(data) == {}

\* the freed blocks a relay reads on entry: its userdata, then data->state
ReadOnEntry(data) ==
    IF ~heap[data].live THEN {"entry"}
    ELSE IF ~state[heap[data].state].live THEN {"state"}
    ELSE {}

\* The host loop calls the callback of an active source up to the point
\* where aml_dispatch runs the callbacks of the inner loop.  A read of freed
\* memory either kills the process or goes on with the stale contents.
EnterRelay(s, mask, calls, outcome) ==
    LET data == sources[s].data
        freed == ReadOnEntry(data)
    IN  /\ ~crashed
        /\ relay.pc = "idle"
        /\ sources[s].active
        /\ uaf' = uaf \cup freed
        /\ IF freed = {}
           THEN outcome = "ok"
           ELSE outcome \in {"crash", "stale"} /\ ("entry" \in freed => outcome = "crash")
        /\ IF outcome = "crash"
           THEN /\ crashed' = TRUE
                /\ UNCHANGED <<relay, trace>>
           ELSE /\ crashed' = FALSE
                /\ relay' = [pc |-> "callbacks", kind |-> sources[s].kind, data |-> data,
                             mask |-> mask, obj |-> heap[data].aml_obj, gone |-> FALSE]
                /\ trace' = calls
        /\ last' = [op |-> "dispatch", obj |-> heap[data].aml_obj, ret |-> 0,
                    fault |-> "none", arg |-> mask, gone |-> FALSE]
        /\ UNCHANGED <<wl_loop, init_pc, init_arg, state, event_mask, backend_data,
                       heap, sources, tr>>

wl_backend_on_fd_event(s, mask, outcome) ==
    /\ sources[s].kind = "fd"
    /\ EnterRelay(s, mask, wl_backend_on_fd_event_calls(sources[s].data, mask), outcome)

wl_backend_on_signal(s, outcome) ==
    /\ sources[s].kind = "signal"
    /\ EnterRelay(s, 0, wl_backend_on_signal_calls(sources[s].data), outcome)

\* aml_dispatch has returned; the relay returns 0 to the host loop
ReturnRelay_removing(kind, op) ==
    /\ ~crashed
    /\ relay.pc = "callbacks"
    /\ relay.kind = kind
    /\ uaf' = uaf
    /\ relay' = RelayIdle
    /\ sources' = [s \in SrcPtrs |-> IF sources[s].data = relay.data THEN FreeSrc
                                     ELSE sources[s]]
    /\ last' = [op |-> op, obj |-> relay.obj, ret |-> 0, fault |-> "none",
                arg |-> relay.mask, gone |-> relay.gone]
    /\ UNCHANGED <<wl_loop, init_pc, init_arg, state, event_mask, backend_data,
                   heap, trace, crashed, tr>>
ReturnRelay(kind, op) ==
    /\ ~crashed
    /\ relay.pc = "callbacks"
    /\ relay.kind = kind
    /\ uaf' = uaf \cup (IF \E d \in wl_backend_after_dispatch(relay.data) :
                              relay.gone \/ ~heap[d].live
                        THEN {"entry"} ELSE {})
    /\ relay' = RelayIdle
    /\ last' = [op |-> op, obj |-> relay.obj, ret |-> 0, fault |-> "none",
                arg |-> relay.mask, gone |-> relay.gone]
    /\ UNCHANGED <<wl_loop, init_pc, init_arg, state, event_mask, backend_data,
                   heap, sources, trace, crashed, tr>>

wl_backend_on_fd_event_return == ReturnRelay("fd", "on_fd_event")

wl_backend_on_signal_return == ReturnRelay("signal", "on_signal")

(* ---------------- specification ---------------- *)
Faults == {"none", "alloc", "host"}
Outcomes == {"ok", "crash", "stale"}

Next ==
    \/ \E a \in Amls : wl_backend_del_state(a)
    \/ \E a \in Amls, w \in Handlers, m \in EventMasks, f \in Faults :
          wl_backend_add_fd(a, w, m, f)
    \/ \E w \in Handlers, m \in EventMasks, f \in {"none", "host"} :
          wl_backend_mod_fd(w, m, f)
    \/ \E w \in Handlers : wl_backend_del_fd(w)
    \/ \E a \in Amls, sig \in Signals, f \in Faults : wl_backend_add_signal(a, sig, f)
    \/ \E sig \in Signals : wl_backend_del_signal(sig)
    \/ \E s \in SrcPtrs, m \in HostMasks, o \in Outcomes : wl_backend_on_fd_event(s, m, o)
    \/ \E s \in SrcPtrs, o \in Outcomes : wl_backend_on_signal(s, o)
    \/ wl_backend_on_fd_event_return
    \/ wl_backend_on_signal_return

Spec == Init /\ [][Next]_vars

\* the loop a thread passes to aml_wl_loop_init: its own
LoopOf(a) == ((a - 1) % NumLoops) + 1

\* several threads initialising their own aml, then starting objects on it
NextInit ==
    \/ \E a \in Amls : aml_wl_loop_init_store(a, LoopOf(a))
    \/ \E a \in Amls, ok \in BOOLEAN : aml_wl_loop_init_new(a, ok)
    \/ \E a \in Amls, w \in Handlers, m \in EventMasks, f \in Faults :
          wl_backend_add_fd(a, w, m, f)
    \/ \E a \in Amls, sig \in Signals, f \in Faults : wl_backend_add_signal(a, sig, f)

SpecInit == InitBoot /\ [][NextInit]_vars

(* ---------------- mask translation round trips ---------------- *)
\* dir "host": x is a host mask, taken to poll bits and back;
\* dir "poll": x is a poll mask, taken to host bits and back
InitMask ==
    /\ wl_loop = NULL
    /\ init_pc = [a \in Amls |-> "none"]
    /\ init_arg = [a \in Amls |-> NULL]
    /\ state = [a \in Amls |-> NoState]
    /\ event_mask = [w \in Handlers |-> 0]
    /\ backend_data = [o \in Objs |-> NULL]
    /\ heap = [d \in DataPtrs |-> FreeData]
    /\ sources = [s \in SrcPtrs |-> FreeSrc]
    /\ relay = RelayIdle
    /\ trace = <<>>
    /\ uaf = {}
    /\ crashed = FALSE
    /\ last = NoCall
    /\ tr \in [pc : {"start"}, dir : {"host", "poll"}, x : 0..MaxMask, y : {0}, z : {0}]

translate_first ==
    /\ tr.pc = "start"
    /\ tr' = [tr EXCEPT !.pc = "mid",
                        !.y = IF tr.dir = "host"
                              THEN wl_backend_events_to_poll_events(tr.x)
                              ELSE wl_backend_events_from_poll_events(tr.x)]
    /\ UNCHANGED <<wl_loop, init_pc, init_arg, state, event_mask, backend_data, heap,
                   sources, relay, trace, uaf, crashed, last>>

translate_second ==
    /\ tr.pc = "mid"
    /\ tr' = [tr EXCEPT !.pc = "done",
                        !.z = IF tr.dir = "host"
                              THEN wl_backend_events_from_poll_events(tr.y)
                              ELSE wl_backend_events_to_poll_events(tr.y)]
    /\ UNCHANGED <<wl_loop, init_pc, init_arg, state, event_mask, backend_data, heap,
                   sources, relay, trace, uaf, crashed, last>>

NextMask == translate_first \/ translate_second

SpecMask == InitMask /\ [][NextMask]_vars

TypeOK ==
    /\ wl_loop \in Loops \cup {NULL}
    /\ \A d \in DataPtrs : heap[d].live => heap[d].aml_obj \in Objs
    /\ relay.pc \in {"idle", "callbacks"}

(* ---------------- properties ---------------- *)
\* the objects other than o that are started
OthersStarted(o) == \E p \in Objs : p # o /\ HasEntry(p)

\* the active host registrations made for descriptor or signal number n
Registrations(n) == {s \in SrcPtrs : sources[s].active /\ sources[s].fd = n}

\* C1: when del_fd(w) has returned, w has no live event_source_data, the host
\* loop has no registration for its descriptor, and its backend data is unset.
C1_DelFdClearsAll ==
    last.op = "del_fd" =>
        /\ ~HasEntry(last.obj)
        /\ Registrations(aml_get_fd(last.obj)) = {}
        /\ backend_data[last.obj] = NULL

\* C2: a relay whose own event_source_data a callback removed during its
\* dispatch pass never reads a freed block, has made exactly one emission, and
\* no active host source is left that would call a relay with a freed block.
C2_DelDuringDispatchSafe ==
    /\ "entry" \notin uaf
    /\ \A s \in SrcPtrs : sources[s].active => heap[sources[s].data].live
    /\ (relay.pc = "callbacks" /\ relay.gone) =>
          Cardinality({i \in 1..Len(trace) : trace[i].call = "aml_emit"}) = 1
    /\ (last.op \in {"on_fd_event", "on_signal"} /\ last.gone) =>
          Cardinality({i \in 1..Len(trace) : trace[i].call = "aml_emit"}) = 1

C2_Witness ==
    /\ last.op = "on_fd_event"
    /\ last.gone
    /\ ~HasEntry(last.obj)
    /\ Registrations(aml_get_fd(last.obj)) = {}

\* C3: a call of the fd relay with host bits READABLE makes exactly two calls
\* into aml: first aml_emit on the handler of its userdata with POLLIN, then
\* one aml_dispatch.
OneEmitThenDispatch(obj, revents) ==
    /\ Len(trace) = 2
    /\ trace[1].call = "aml_emit"
    /\ trace[1].obj = obj
    /\ trace[1].revents = revents
    /\ trace[2].call = "aml_dispatch"

C3_FdRelayEmitsOnce ==
    /\ (relay.pc = "callbacks" /\ relay.kind = "fd" /\ relay.mask = WL_EVENT_READABLE)
          => OneEmitThenDispatch(relay.obj, POLLIN)
    /\ (last.op = "on_fd_event" /\ last.arg = WL_EVENT_READABLE)
          => OneEmitThenDispatch(last.obj, POLLIN) /\ last.ret = 0

C3_Witness ==
    /\ last.op = "on_fd_event"
    /\ last.arg = WL_EVENT_READABLE
    /\ HasEntry(last.obj)
    /\ OthersStarted(last.obj)

\* C4: a backend call during which the host loop rejected the request
\* returns a status other than 0.
C4_HostFailureReported == last.fault = "host" => last.ret # 0

C6_DelStateDrains ==
    last.op = "del_state" =>
        /\ \A d \in DataPtrs : ~(heap[d].live /\ heap[d].state = last.arg)
        /\ \A s \in SrcPtrs : ~(sources[s].active /\ heap[sources[s].data].state = last.arg)

\* C7: every wl_backend_state holds the loop that was passed to the
\* aml_wl_loop_init call that created it, and every host source is
\* registered with the loop passed to the init call of its aml.
C7_StateBoundToInitLoop ==
    /\ \A a \in Amls : state[a].live => state[a].loop = init_arg[a]
    /\ \A s \in SrcPtrs : sources[s].active =>
          sources[s].loop = init_arg[heap[sources[s].data].state]

\* the mask the host loop holds for the source of a started handler
HostMask(w) == sources[heap[backend_data[w]].src].mask

HostDefined == {0, WL_EVENT_READABLE, WL_EVENT_WRITABLE, WL_EVENT_READABLE + WL_EVENT_WRITABLE}
PollDefined == {0, POLLIN, POLLOUT, POLLIN + POLLOUT}

C9_RoundTrip ==
    tr.pc = "done" =>
        /\ (tr.dir = "host" /\ tr.x \in HostDefined) => tr.z = tr.x
        /\ (tr.dir = "poll" /\ tr.x \in PollDefined) => tr.z = tr.x

C9_Witness ==
    /\ tr.pc = "done"
    /\ tr.dir = "host"
    /\ tr.x = WL_EVENT_WRITABLE
    /\ tr.y = POLLOUT
    /\ tr.z = WL_EVENT_WRITABLE

\* C10: a call of the signal relay makes exactly two calls into aml: first
\* aml_emit on the aml_signal of its userdata with mask 0, then one
\* aml_dispatch.
C10_SignalRelayEmitsOnce ==
    /\ (relay.pc = "callbacks" /\ relay.kind = "signal")
          => OneEmitThenDispatch(relay.obj, 0)
    /\ last.op = "on_signal" => OneEmitThenDispatch(last.obj, 0) /\ last.ret = 0

C10_Witness ==
    /\ last.op = "on_signal"
    /\ last.obj \in Signals
    /\ HasEntry(last.obj)
    /\ OthersStarted(last.obj)

\* the aml_emit calls among the calls of a relay
Emits(t) == SelectSeq(t, LAMBDA c : c.call = "aml_emit")

\* this step is the host loop calling a relay that gets to run
RelayStarts == relay.pc = "idle" /\ relay'.pc = "callbacks"

\* C11: every notification the host loop delivers for a source makes exactly
\* one emission, at once, on the object the source was registered for, with
\* the mask of that notification translated; no other step emits.  The
\* emissions on an object are therefore its notifications, in order.
C11_OneEmissionPerNotification ==
    [][/\ RelayStarts =>
             \E s \in SrcPtrs :
                /\ sources[s].active
                /\ sources[s].data = relay'.data
                /\ Len(Emits(trace')) = 1
                /\ Emits(trace')[1].obj = sources[s].fd
                /\ Emits(trace')[1].revents =
                      IF sources[s].kind = "fd"
                      THEN wl_backend_events_to_poll_events(relay'.mask) ELSE 0
       /\ ~RelayStarts => (trace' = <<>> \/ Emits(trace') = Emits(trace))]_vars

C11_Witness ==
    /\ relay.pc = "callbacks"
    /\ relay.kind = "fd"
    /\ relay.mask = WL_EVENT_WRITABLE + WL_EVENT_HANGUP + WL_EVENT_ERROR
    /\ Len(Emits(trace)) = 1
    /\ Emits(trace)[1].obj = relay.obj
    /\ Emits(trace)[1].revents = POLLOUT
    /\ OthersStarted(relay.obj)

\* C12: between calls, every live event_source_data holds a source that is
\* active in the host loop and carries it as userdata, and every active
\* source carries a live event_source_data that holds it.
C12_EntriesMatchSources ==
    /\ \A d \in DataPtrs : heap[d].live =>
          /\ heap[d].src # NULL
          /\ sources[heap[d].src].active
          /\ sources[heap[d].src].data = d
    /\ \A s \in SrcPtrs : sources[s].active =>
          /\ heap[sources[s].data].live
          /\ heap[sources[s].data].src = s

C12_Witness ==
    /\ last.op = "del_fd"
    /\ ~HasEntry(last.obj)
    /\ \E d \in DataPtrs : heap[d].live /\ sources[heap[d].src].active

\* C13: every object has at most one live event_source_data and at most one
\* host registration, and its backend data points to a live
\* event_source_data exactly when the object is started.
C13_OneEntryPerObject ==
    \A o \in Objs :
        /\ Cardinality({d \in DataPtrs : heap[d].live /\ heap[d].aml_obj = o}) <= 1
        /\ Cardinality(Registrations(o)) <= 1
        /\ (backend_data[o] # NULL /\ heap[backend_data[o]].live) <=> HasEntry(o)

\* this step is a call made by a callback while the dispatch pass of a
\* relay is running
InPass == relay.pc = "callbacks" /\ relay'.pc = "callbacks"

\* the live event_source_data of object o in heap h
EntriesOf(h, o) == {d \in DataPtrs : h[d].live /\ h[d].aml_obj = o}

\* C14: a relay whose dispatch pass is running can always return, and returns
\* 0.  A call made during the pass on an object other than the relay's own
\* does what it does outside a pass: a successful add leaves the object with
\* a live event_source_data and an active source for it, a del leaves it with
\* neither, and the blocks and sources of every other object, the relay's
\* own included, are as before.
C14_NestedLifecycleCalls ==
    /\ [](relay.pc = "callbacks" =>
             ENABLED (wl_backend_on_fd_event_return \/ wl_backend_on_signal_return))
    /\ [](last.op \in {"on_fd_event", "on_signal"} => last.ret = 0)
    /\ [][(InPass /\ last'.obj # relay.obj) =>
            /\ (last'.op \in {"add_fd", "add_signal"} /\ last'.ret = 0) =>
                  \E d \in EntriesOf(heap', last'.obj) :
                     /\ heap'[d].src # NULL
                     /\ sources'[heap'[d].src].active
                     /\ sources'[heap'[d].src].fd = last'.obj
                     /\ sources'[heap'[d].src].data = d
            /\ last'.op \in {"del_fd", "del_signal"} =>
                  /\ EntriesOf(heap', last'.obj) = {}
                  /\ \A s \in SrcPtrs : ~(sources'[s].active /\ sources'[s].fd = last'.obj)
            /\ \A d \in DataPtrs : (heap[d].live /\ heap[d].aml_obj # last'.obj) =>
                  /\ heap'[d] = heap[d]
                  /\ sources'[heap[d].src] = sources[heap[d].src]
            /\ relay' = relay]_vars

C14_Witness ==
    /\ relay.pc = "callbacks"
    /\ relay.kind = "fd"
    /\ ~relay.gone
    /\ last.op = "del_signal"
    /\ last.obj # relay.obj
    /\ HasEntry(relay.obj)
    /\ ~HasEntry(last.obj)

\* C15: the mask a fd relay emits has POLLIN exactly when the host bits had
\* READABLE, POLLOUT exactly when they had WRITABLE, and no other bit, and
\* the relay returns 0 whatever the host bits were; the mask of every source
\* registered with the host loop has no bit besides READABLE and WRITABLE.
EmittedFor(mask) ==
    /\ Len(trace) >= 1
    /\ trace[1].revents \in PollDefined
    /\ HasBit(trace[1].revents, POLLIN) <=> HasBit(mask, WL_EVENT_READABLE)
    /\ HasBit(trace[1].revents, POLLOUT) <=> HasBit(mask, WL_EVENT_WRITABLE)

C15_OtherBitsDropped ==
    /\ \A s \in SrcPtrs : sources[s].active => sources[s].mask \in HostDefined
    /\ (relay.pc = "callbacks" /\ relay.kind = "fd") => EmittedFor(relay.mask)
    /\ last.op = "on_fd_event" => EmittedFor(last.arg) /\ last.ret = 0

C15_Witness ==
    /\ last.op = "on_fd_event"
    /\ last.arg = WL_EVENT_WRITABLE + WL_EVENT_HANGUP + WL_EVENT_ERROR
    /\ trace[1].revents = POLLOUT
    /\ Started(last.obj)
    /\ event_mask[last.obj] = POLLOUT + POLLPRI
    /\ HostMask(last.obj) = WL_EVENT_WRITABLE

\* C16: the steps of a relay itself, its entry up to aml_dispatch and its
\* return, leave every event_source_data, every host source with its mask,
\* every backend data and every interest mask as they were, and the relay
\* returns 0.
C16_RelayLeavesRegistrations ==
    [][last'.op \in {"dispatch", "on_fd_event", "on_signal"} =>
          /\ heap' = heap
          /\ sources' = sources
          /\ backend_data' = backend_data
          /\ event_mask' = event_mask
          /\ last'.ret = 0]_vars

C16_Witness ==
    /\ last.op = "on_fd_event"
    /\ last.ret = 0
    /\ ~last.gone
    /\ Started(last.obj)
    /\ sources[heap[backend_data[last.obj]].src].active
    /\ OthersStarted(last.obj)

\* C17: a step of mod_fd leaves every event_source_data and every backend
\* data as they were, leaves every source other than the handler's as it
\* was, and changes nothing but the mask in the handler's own source, which
\* keeps its place.
C17_ModFdInPlace ==
    [][last'.op = "mod_fd" =>
          /\ heap' = heap
          /\ backend_data' = backend_data
          /\ relay' = relay
          /\ \A s \in SrcPtrs :
                IF s = heap[backend_data[last'.obj]].src
                THEN sources'[s] = [sources[s] EXCEPT !.mask = sources'[s].mask]
                ELSE sources'[s] = sources[s]]_vars

C17_Witness ==
    /\ last.op = "mod_fd"
    /\ last.fault = "none"
    /\ event_mask[last.obj] = POLLIN
    /\ HostMask(last.obj) = WL_EVENT_READABLE
    /\ OthersStarted(last.obj)

\* C18: a step of add_fd or add_signal whose calloc fails returns -1 and
\* leaves the heap, the host sources (no register call was made) and every
\* backend data as they were; a new_state whose calloc fails returns NULL
\* and leaves no wl_backend_state behind.
C18_AllocFailureLeavesNothing ==
    [][/\ (last'.op \in {"add_fd", "add_signal"} /\ last'.fault = "alloc") =>
             /\ last'.ret = -1
             /\ heap' = heap
             /\ sources' = sources
             /\ backend_data' = backend_data
       /\ (last'.op = "new_state" /\ last'.fault = "alloc") =>
             /\ last'.ret = -1
             /\ ~state'[last'.arg].live
             /\ state' = state
             /\ init_pc'[last'.arg] = "failed"
             /\ heap' = heap
             /\ sources' = sources]_vars

C18_Witness ==
    /\ last.op \in {"add_fd", "add_signal"}
    /\ last.fault = "alloc"
    /\ last.ret = -1
    /\ ~HasEntry(last.obj)
    /\ backend_data[last.obj] = NULL
    /\ \E a \in Amls : init_pc[a] = "failed" /\ ~state[a].live
    /\ \E a \in Amls : init_pc[a] = "ready" /\ state[a].live

\* C19: no relay ever reads a freed event_source_data, aml_emit is called
\* only by a relay the host loop starts, and when one starts, the object it
\* emits on has a live event_source_data, set by an add that returned 0 and
\* not freed by a del since, which its backend data points to and which an
\* active source for that object carries.
C19_EmitOnlyWhileRegistered ==
    /\ []("entry" \notin uaf)
    /\ [][/\ RelayStarts =>
                LET o == Emits(trace')[1].obj
                IN  /\ EntriesOf(heap, o) # {}
                    /\ backend_data[o] \in EntriesOf(heap, o)
                    /\ \E s \in SrcPtrs :
                          /\ sources[s].active
                          /\ sources[s].fd = o
                          /\ sources[s].data \in EntriesOf(heap, o)
                          /\ relay'.data = sources[s].data
          /\ (trace' # <<>> /\ Emits(trace') # Emits(trace)) => RelayStarts]_vars

C19_Witness ==
    /\ relay.pc = "callbacks"
    /\ ~relay.gone
    /\ HasEntry(relay.obj)
    /\ Len(Emits(trace)) = 1
    /\ \E p \in Objs : p # relay.obj /\ ~HasEntry(p) /\ backend_data[p] # NULL
                       /\ Registrations(p) = {}

====
